---- MODULE Spec2Model ----
(***************************************************************************)
(* Dispatch core of the cab-match backend (src/backend/server.py): the     *)
(* trip lifecycle (request_trip / match_driver / start_trip /              *)
(* complete_trip), the driver status and location updates, and the         *)
(* ConnectionManager used for the push notifications.                      *)
(*                                                                         *)
(* Every handler is an asyncio coroutine: it runs atomically between two   *)
(* awaits and may be interleaved with any other handler at an await.  Each *)
(* action below is one such atomic segment (the database call the segment  *)
(* ends in takes effect atomically, as MongoDB does for single-document    *)
(* operations).  The handlers in flight are the bag `proc`.                *)
(*                                                                         *)
(* A send raises when json.dumps cannot encode its message or when the     *)
(* connection of the registered websocket has failed; nothing in the       *)
(* program catches it, so it ends the handler that sends.                  *)
(*                                                                         *)
(* Geography: locations are points on one meridian, GridKm kilometres      *)
(* apart, so the great-circle distance of two points is GridKm times the   *)
(* difference of their indexes.                                            *)
(***************************************************************************)
EXTENDS Integers, Sequences, FiniteSets, Bags, TLC

\* ---------------------------------------------------------------- bounds
NumProcs   == 2      \* handlers that can be in flight at once
NumRiders  == 1      \* registered riders, ids 1..NumRiders
NumDrivers == 2      \* registered drivers, ids 1..NumDrivers
MaxTrips   == 1      \* trips that can be requested
MaxRequests == 2     \* trips that can be requested where requests contend
MaxPos     == 2      \* driver locations are the grid points 0..MaxPos
MaxPickup  == 0      \* pickup points are the grid points 0..MaxPickup
GridKm     == 6      \* kilometres between two neighbouring grid points
NumChannels == 2     \* websockets one client can hold open at once
MaxRegistrations == 2  \* accounts registered on top of the initial ones
MaxDemand  == 12     \* trips counted as demand by a fare estimate: 0..MaxDemand
MaxSupply  == 10     \* drivers counted as supply by a fare estimate: 0..MaxSupply

\* ------------------------------------------------------ program constants
Null        == -1      \* Optional[...] = None
\* mutant of MaxDistance: the radius written as 1 km
MaxDistanceOneKm == 10 * 100
MaxDistance == 10000   \* "$maxDistance": 10000 (metres)
RadiusKm    == 10      \* "within 10km radius"
ToListCap   == 10      \* .to_list(10)
base_fare   == 50
per_km_rate == 15

Riders    == 1..NumRiders
Drivers   == 1..NumDrivers
Positions == 0..MaxPos
Pickups   == 0..MaxPickup
\* every trip is requested to the far end of the grid
Dropoffs  == {MaxPos}
\* a rider id no rider record carries, for requests of an unknown rider
UnknownRider == NumRiders + 1
\* a trip id no trip record carries
AbsentTrip == MaxTrips + 1
\* the websocket objects a client can connect with
Channels == 1..NumChannels
\* the websocket of a client that holds one connection at a time
RouteSocket == 1
\* a phone number no initial account carries
FreshPhone == NumRiders + NumDrivers + 1
\* the phone numbers of registration requests: those of the initial accounts
\* and one more
Phones == 1..FreshPhone
MessageTypes == {"trip_assigned", "trip_started", "trip_completed"}
\* the messages a caller hands to the ConnectionManager on its own: every value
\* is one json.dumps encodes.  `documents` names the values of a message that
\* are documents as find or find_one returned them
Messages == [type : MessageTypes, trip_id : 1..MaxTrips, documents : {{}}]

DriverStatus == {"offline", "available", "on_trip"}
TripStatus   == {"requested", "assigned", "ongoing", "completed", "cancelled"}
NonTerminal  == {"requested", "assigned", "ongoing"}
Terminal     == {"completed", "cancelled"}

VARIABLES
    riders,              \* db.riders: sequence of rider documents, id = index
    drivers,             \* db.drivers: sequence of driver documents, id = index
    trips,               \* db.trips: sequence of trip documents, id = index
    rider_connections,   \* manager.rider_connections: rider id -> websocket
    driver_connections,  \* manager.driver_connections: driver id -> websocket
    websockets,          \* the websockets of the routes that follow them:
                         \* <<role, id, websocket>> -> "open" or "broken"
    sent,                \* the frames the last step wrote to channels (send_text)
    response,            \* the response the last step returned to a caller
    clock,               \* datetime.now(): logical time of the last reading
    proc                 \* the handlers in flight: a bag of Running records

vars == <<riders, drivers, trips, rider_connections, driver_connections, websockets, sent,
          response, clock, proc>>

\* ---------------------------------------------------------------- helpers
Abs(x) == IF x < 0 THEN -x ELSE x

\* haversine_distance, in kilometres, of two points of the meridian grid
haversine_distance(a, b) == GridKm * Abs(a - b)

\* fare = base_fare + (per_km_rate * distance)
Fare(distance) == base_fare + (per_km_rate * distance)

\* Python floats of calculate_surge_factor, kept exact: a rational is a pair
\* <<numerator, denominator>> with a positive denominator
Add(x, y) == <<(x[1] * y[2]) + (y[1] * x[2]), x[2] * y[2]>>
Sub(x, y) == <<(x[1] * y[2]) - (y[1] * x[2]), x[2] * y[2]>>
Mul(x, y) == <<x[1] * y[1], x[2] * y[2]>>
Leq(x, y) == x[1] * y[2] <= y[1] * x[2]
max(x, y) == IF Leq(y, x) THEN x ELSE y
min(x, y) == IF Leq(x, y) THEN x ELSE y

\* mutant of calculate_surge_factor: the factor is not capped
calculate_surge_factor_uncapped(demand, supply) ==
    IF supply = 0
    THEN <<25, 10>>
    ELSE LET ratio == <<demand, supply>>
         IN  Add(<<10, 10>>, Mul(<<6, 10>>, max(<<0, 1>>, Sub(ratio, <<1, 1>>))))

\* calculate_surge_factor(demand, supply):
\*   if supply == 0: return 2.5
\*   ratio = demand / supply
\*   return min(1.0 + 0.6 * max(0, ratio - 1), 2.5)
calculate_surge_factor(demand, supply) ==
    IF supply = 0
    THEN <<25, 10>>
    ELSE LET ratio == <<demand, supply>>
         IN  min(Add(<<10, 10>>, Mul(<<6, 10>>, max(<<0, 1>>, Sub(ratio, <<1, 1>>)))),
                 <<25, 10>>)

\* Trip(rider_id=..., pickup=..., dropoff=...): the defaults of the model
NewTrip(rider_id, pickup, dropoff, now) ==
    [rider_id |-> rider_id, driver_id |-> Null, pickup |-> pickup,
     dropoff |-> dropoff, status |-> "requested", requested_at |-> now,
     assigned_at |-> Null, started_at |-> Null, completed_at |-> Null,
     distance_km |-> Null, fare |-> Null]

\* Rider(...): of the fields of a rider only the phone is ever read
NewRider(phone) == [phone |-> phone]

\* Driver(...): status offline, no location
NewDriver(phone) == [phone |-> phone, status |-> "offline", location |-> Null]

TripIds == 1..Len(trips)

\* db.trips.find_one({"id": trip_id}) finds a document
TripExists(trip_id) == trip_id \in TripIds

\* a handler suspended at an await, about to run the segment `pc`, with the
\* locals it carries over the await
Running(op, pc, trip_id, rider_id, driver_id) ==
    [op |-> op, pc |-> pc, trip_id |-> trip_id, rider_id |-> rider_id,
     driver_id |-> driver_id, phone |-> Null]

\* a registration handler suspended at an await, with the phone of its request
Registering(op, pc, phone) ==
    [op |-> op, pc |-> pc, trip_id |-> Null, rider_id |-> Null,
     driver_id |-> Null, phone |-> phone]

Handlers == BagToSet(proc)

\* the server takes a new request
Free == BagCardinality(proc) < NumProcs

\* a request arrives and its handler runs to its first suspension as h
Spawn(h) == proc' = proc (+) SetToBag({h})

\* the handler h runs one segment and suspends as h2
Resume(h, h2) == proc' = (proc (-) SetToBag({h})) (+) SetToBag({h2})

\* the handler h runs its last segment
Finish(h) == proc' = proc (-) SetToBag({h})

\* what a trip route or match_driver hands back when it returns or raises:
\* the status code ("none" for match_driver called on its own, which returns
\* None) and how the handler's match_driver call ended ("none": no such call)
Response(op, trip_id, result, match) ==
    [op |-> op, trip_id |-> trip_id, result |-> result, match |-> match]

NoResponse == Response("none", Null, "none", "none")

\* a frame send_text writes to the websocket `channel`
Frame(role, id, channel, message) ==
    [role |-> role, id |-> id, channel |-> channel, type |-> message.type,
     trip_id |-> message.trip_id]

\* mutant of send_to_rider: the frame goes out whether or not a websocket is
\* registered (to the registered one, else to the client's first)
send_to_rider_unchecked(rider_id, message) ==
    <<Frame("rider", rider_id,
            IF rider_id \in DOMAIN rider_connections
            THEN rider_connections[rider_id] ELSE RouteSocket, message)>>

\* ConnectionManager.send_to_rider: the frames send_text writes (none when no
\* websocket is registered for rider_id)
send_to_rider(rider_id, message) ==
    IF rider_id \in DOMAIN rider_connections
    THEN <<Frame("rider", rider_id, rider_connections[rider_id], message)>>
    ELSE <<>>

\* ConnectionManager.send_to_driver
send_to_driver(driver_id, message) ==
    IF driver_id \in DOMAIN driver_connections
    THEN <<Frame("driver", driver_id, driver_connections[driver_id], message)>>
    ELSE <<>>

\* json.dumps(message) raises TypeError: a document as find or find_one
\* returned it holds the ObjectId of its "_id", which json.dumps does not encode
TypeError(message) == message.documents # {}

\* send_text raises on a websocket whose connection has failed
Broken(role, id, websocket) ==
    /\ <<role, id, websocket>> \in DOMAIN websockets
    /\ websockets[<<role, id, websocket>>] = "broken"

\* ConnectionManager.send_to_rider raises: a websocket is registered for
\* rider_id and json.dumps or send_text raises; nothing catches it
SendToRiderRaises(rider_id, message) ==
    /\ rider_id \in DOMAIN rider_connections
    /\ (TypeError(message) \/ Broken("rider", rider_id, rider_connections[rider_id]))

\* ConnectionManager.send_to_driver raises
SendToDriverRaises(driver_id, message) ==
    /\ driver_id \in DOMAIN driver_connections
    /\ (TypeError(message) \/ Broken("driver", driver_id, driver_connections[driver_id]))

\* the response to the caller of handler h when a send of h raised: a route
\* answers 500, a match_driver call on its own raises to its caller
Raised(h) ==
    Response(h.op, h.trip_id,
             IF h.op = "match" THEN "raised" ELSE "500",
             IF h.op \in {"match", "request"} THEN "assigned" ELSE "none")

\* mutant of Assign: an existing entry is kept (dict.setdefault)
AssignIfAbsent(connections, id, websocket) ==
    [x \in DOMAIN connections \cup {id} |->
        IF x \in DOMAIN connections THEN connections[x] ELSE websocket]

\* connections[id] = websocket
Assign(connections, id, websocket) ==
    [x \in DOMAIN connections \cup {id} |->
        IF x = id THEN websocket ELSE connections[x]]

\* mutant of Del: the whole mapping is cleared (dict.clear)
DelAll(connections, id) == <<>>

\* if id in connections: del connections[id]
Del(connections, id) ==
    [x \in DOMAIN connections \ {id} |-> connections[x]]

\* a step that writes no frame and returns no response
Quiet == sent' = <<>> /\ response' = NoResponse

\* the accounts of Riders and Drivers are registered, each under its own phone
Init ==
    /\ riders = [r \in Riders |-> NewRider(r)]
    /\ drivers = [d \in Drivers |-> NewDriver(d)]
    /\ trips = <<>>
    /\ rider_connections = <<>>
    /\ driver_connections = <<>>
    /\ websockets = <<>>
    /\ sent = <<>>
    /\ response = NoResponse
    /\ clock = 0
    /\ proc = EmptyBag

\* ------------------------------------------------------ registration routes
\* db.riders.find_one({"phone": rider_data.phone}) finds a document
RiderPhoneExists(phone) == \E r \in DOMAIN riders : riders[r].phone = phone

\* db.drivers.find_one({"phone": driver_data.phone}) finds a document
DriverPhoneExists(phone) == \E d \in DOMAIN drivers : drivers[d].phone = phone

\* POST /auth/rider/register up to its second await: the lookup by phone
register_rider(phone) ==
    /\ Free
    /\ Len(riders) + BagCardinality(proc) < NumRiders + MaxRegistrations
    /\ IF RiderPhoneExists(phone)
       THEN /\ response' = Response("register_rider", Null, "400", "none")
            /\ UNCHANGED proc
       ELSE /\ Spawn(Registering("register_rider", "rr_insert", phone))
            /\ response' = NoResponse
    /\ sent' = <<>>
    /\ UNCHANGED <<websockets, riders, drivers, trips, rider_connections, driver_connections, clock>>

\* await db.riders.insert_one(rider_dict), then the AuthResponse
RegisterRiderInsert(h) ==
    /\ h.pc = "rr_insert"
    /\ riders' = Append(riders, NewRider(h.phone))
    /\ Finish(h)
    /\ sent' = <<>>
    /\ response' = Response("register_rider", Null, "200", "none")
    /\ UNCHANGED <<websockets, drivers, trips, rider_connections, driver_connections, clock>>

\* POST /auth/driver/register up to its second await: the lookup by phone
register_driver(phone) ==
    /\ Free
    /\ Len(drivers) + BagCardinality(proc) < NumDrivers + MaxRegistrations
    /\ IF DriverPhoneExists(phone)
       THEN /\ response' = Response("register_driver", Null, "400", "none")
            /\ UNCHANGED proc
       ELSE /\ Spawn(Registering("register_driver", "rd_insert", phone))
            /\ response' = NoResponse
    /\ sent' = <<>>
    /\ UNCHANGED <<websockets, riders, drivers, trips, rider_connections, driver_connections, clock>>

\* await db.drivers.insert_one(driver_dict)
RegisterDriverInsert(h) ==
    /\ h.pc = "rd_insert"
    /\ drivers' = Append(drivers, NewDriver(h.phone))
    /\ Resume(h, [h EXCEPT !.pc = "rd_create_index"])
    /\ Quiet
    /\ UNCHANGED <<websockets, riders, trips, rider_connections, driver_connections, clock>>

\* await db.drivers.create_index([("location", "2dsphere")]), then the AuthResponse
RegisterDriverIndex(h) ==
    /\ h.pc = "rd_create_index"
    /\ Finish(h)
    /\ sent' = <<>>
    /\ response' = Response("register_driver", Null, "200", "none")
    /\ UNCHANGED <<websockets, riders, drivers, trips, rider_connections, driver_connections, clock>>

\* ------------------------------------------------------------ driver routes
\* PUT /drivers/{driver_id}/location
update_driver_location(d, pos) ==
    /\ drivers' = [drivers EXCEPT ![d].location = pos]
    /\ Quiet
    /\ UNCHANGED <<websockets, riders, trips, rider_connections, driver_connections, clock, proc>>

\* PUT /drivers/{driver_id}/status: any DriverStatus the caller names is stored
update_driver_status(d, new_status) ==
    /\ drivers' = [drivers EXCEPT ![d].status = new_status]
    /\ Quiet
    /\ UNCHANGED <<websockets, riders, trips, rider_connections, driver_connections, clock, proc>>

\* ------------------------------------------------------- websocket routes
\* ConnectionManager.connect_rider: accept, then register the websocket
connect_rider(rider_id, websocket) ==
    /\ rider_connections' = Assign(rider_connections, rider_id, websocket)
    /\ Quiet
    /\ UNCHANGED <<websockets, riders, drivers, trips, driver_connections, clock, proc>>

connect_driver(driver_id, websocket) ==
    /\ driver_connections' = Assign(driver_connections, driver_id, websocket)
    /\ Quiet
    /\ UNCHANGED <<websockets, riders, drivers, trips, rider_connections, clock, proc>>

\* ConnectionManager.disconnect_rider
disconnect_rider(rider_id) ==
    /\ rider_connections' = Del(rider_connections, rider_id)
    /\ Quiet
    /\ UNCHANGED <<websockets, riders, drivers, trips, driver_connections, clock, proc>>

disconnect_driver(driver_id) ==
    /\ driver_connections' = Del(driver_connections, driver_id)
    /\ Quiet
    /\ UNCHANGED <<websockets, riders, drivers, trips, rider_connections, clock, proc>>

\* /ws/rider/{rider_id}: a client opens `websocket`; the route registers it,
\* manager.connect_rider(rider_id, websocket), and waits in receive_text
websocket_rider(rider_id, websocket) ==
    /\ <<"rider", rider_id, websocket>> \notin DOMAIN websockets
    /\ websockets' = [k \in DOMAIN websockets \cup {<<"rider", rider_id, websocket>>} |->
                         IF k \in DOMAIN websockets THEN websockets[k] ELSE "open"]
    /\ rider_connections' = Assign(rider_connections, rider_id, websocket)
    /\ Quiet
    /\ UNCHANGED <<riders, drivers, trips, driver_connections, clock, proc>>

\* /ws/driver/{driver_id}
websocket_driver(driver_id, websocket) ==
    /\ <<"driver", driver_id, websocket>> \notin DOMAIN websockets
    /\ websockets' = [k \in DOMAIN websockets \cup {<<"driver", driver_id, websocket>>} |->
                         IF k \in DOMAIN websockets THEN websockets[k] ELSE "open"]
    /\ driver_connections' = Assign(driver_connections, driver_id, websocket)
    /\ Quiet
    /\ UNCHANGED <<riders, drivers, trips, rider_connections, clock, proc>>

\* receive_text raises WebSocketDisconnect in the route of `websocket`, closed
\* by its client or found broken: except WebSocketDisconnect:
\* manager.disconnect_rider(rider_id)
websocket_rider_disconnect(rider_id, websocket) ==
    /\ <<"rider", rider_id, websocket>> \in DOMAIN websockets
    /\ websockets' = [k \in DOMAIN websockets \ {<<"rider", rider_id, websocket>>} |->
                         websockets[k]]
    /\ rider_connections' = Del(rider_connections, rider_id)
    /\ Quiet
    /\ UNCHANGED <<riders, drivers, trips, driver_connections, clock, proc>>

websocket_driver_disconnect(driver_id, websocket) ==
    /\ <<"driver", driver_id, websocket>> \in DOMAIN websockets
    /\ websockets' = [k \in DOMAIN websockets \ {<<"driver", driver_id, websocket>>} |->
                         websockets[k]]
    /\ driver_connections' = Del(driver_connections, driver_id)
    /\ Quiet
    /\ UNCHANGED <<riders, drivers, trips, rider_connections, clock, proc>>

\* the connection of an open websocket fails while its route waits in
\* receive_text: from now on send_text raises on it
Break(k) ==
    /\ k \in DOMAIN websockets
    /\ websockets[k] = "open"
    /\ websockets' = [websockets EXCEPT ![k] = "broken"]
    /\ Quiet
    /\ UNCHANGED <<riders, drivers, trips, rider_connections, driver_connections, clock,
                   proc>>

\* ConnectionManager.send_to_rider called on its own; it returns None
SendToRider(rider_id, message) ==
    /\ sent' = IF SendToRiderRaises(rider_id, message)
               THEN <<>> ELSE send_to_rider(rider_id, message)
    /\ response' = Response("send_to_rider", message.trip_id,
                            IF SendToRiderRaises(rider_id, message)
                            THEN "raised" ELSE "none", "none")
    /\ UNCHANGED <<websockets, riders, drivers, trips, rider_connections, driver_connections,
                   clock, proc>>

\* ConnectionManager.send_to_driver called on its own
SendToDriver(driver_id, message) ==
    /\ sent' = IF SendToDriverRaises(driver_id, message)
               THEN <<>> ELSE send_to_driver(driver_id, message)
    /\ response' = Response("send_to_driver", message.trip_id,
                            IF SendToDriverRaises(driver_id, message)
                            THEN "raised" ELSE "none", "none")
    /\ UNCHANGED <<websockets, riders, drivers, trips, rider_connections, driver_connections,
                   clock, proc>>

\* ------------------------------------------------------------ match_driver
\* mutant of MatchGuard: only `if not trip: return`
MatchGuardExists(trip_id) == TripExists(trip_id)

\* the guard of match_driver: `if not trip or trip['status'] != 'requested': return`
MatchGuard(trip_id) ==
    TripExists(trip_id) /\ trips[trip_id].status = "requested"

\* the filter of the proximity query: status available, a location within
\* $maxDistance metres of the pickup (a driver without location matches no $near)
Eligible(d, pickup) ==
    /\ drivers[d].status = "available"
    /\ drivers[d].location # Null
    /\ haversine_distance(drivers[d].location, pickup) * 1000 <= MaxDistance

\* mutant of NearestFirst: a plain find, in no particular order
AnyOrder(s, pickup) == TRUE

\* $near returns the matching documents nearest first
NearestFirst(s, pickup) ==
    \A i, j \in DOMAIN s :
        i < j => haversine_distance(drivers[s[i]].location, pickup)
                   <= haversine_distance(drivers[s[j]].location, pickup)

Orderings(S) ==
    {s \in [1..Cardinality(S) -> S] : \A i, j \in DOMAIN s : i # j => s[i] # s[j]}

\* db.drivers.find({...}).to_list(10): every list the query may return; the
\* order of drivers at equal distance is the index's own
nearby_drivers(pickup) ==
    LET E == {d \in Drivers : Eligible(d, pickup)}
    IN  {SubSeq(s, 1, IF Len(s) < ToListCap THEN Len(s) ELSE ToListCap) :
            s \in {o \in Orderings(E) : NearestFirst(o, pickup)}}

\* what the caller of the handler `op` gets when its match_driver call is over:
\* request_trip returns the trip it created, match_driver itself returns None
AfterMatch(op, trip_id, match) ==
    Response(op, trip_id, IF op = "request" THEN "200" ELSE "none", match)

\* match_driver called on its own, as the task its docstring describes, up to
\* its first await: trip = find_one(...), then the guard
MatchInvoke(trip_id) ==
    /\ Free
    /\ IF MatchGuard(trip_id)
       THEN /\ Spawn(Running("match", "md_find_drivers", trip_id,
                             trips[trip_id].rider_id, Null))
            /\ response' = NoResponse
       ELSE /\ response' = AfterMatch("match", trip_id, "skipped")
            /\ UNCHANGED proc
    /\ sent' = <<>>
    /\ UNCHANGED <<websockets, riders, drivers, trips, rider_connections, driver_connections, clock>>

\* the first await of the match_driver call made by request_trip, and the guard
MatchLoad(h) ==
    /\ h.pc = "md_find_trip"
    /\ IF MatchGuard(h.trip_id)
       THEN /\ Resume(h, [h EXCEPT !.pc = "md_find_drivers",
                                   !.rider_id = trips[h.trip_id].rider_id])
            /\ response' = NoResponse
       ELSE /\ Finish(h)
            /\ response' = AfterMatch(h.op, h.trip_id, "skipped")
    /\ sent' = <<>>
    /\ UNCHANGED <<websockets, riders, drivers, trips, rider_connections, driver_connections, clock>>

\* mutant of MatchFindDrivers: a trip no driver is found for is cancelled
MatchFindDriversCancelling(h) ==
    /\ h.pc = "md_find_drivers"
    /\ \E nearby \in nearby_drivers(trips[h.trip_id].pickup) :
          IF nearby # <<>>
          THEN /\ Resume(h, [h EXCEPT !.pc = "md_update_trip", !.driver_id = nearby[1]])
               /\ response' = NoResponse
               /\ UNCHANGED trips
          ELSE /\ Finish(h)
               /\ response' = AfterMatch(h.op, h.trip_id, "no_driver")
               /\ trips' = [trips EXCEPT ![h.trip_id].status = "cancelled"]
    /\ sent' = <<>>
    /\ UNCHANGED <<websockets, riders, drivers, rider_connections, driver_connections, clock>>

\* nearby_drivers = await ...to_list(10); best_driver = nearby_drivers[0]
\* (pickup is never written after the insert, so the loaded trip's pickup is
\* the stored one)
MatchFindDrivers(h) ==
    /\ h.pc = "md_find_drivers"
    /\ \E nearby \in nearby_drivers(trips[h.trip_id].pickup) :
          IF nearby # <<>>
          THEN /\ Resume(h, [h EXCEPT !.pc = "md_update_trip", !.driver_id = nearby[1]])
               /\ response' = NoResponse
          ELSE /\ Finish(h)
               /\ response' = AfterMatch(h.op, h.trip_id, "no_driver")
    /\ sent' = <<>>
    /\ UNCHANGED <<websockets, riders, drivers, trips, rider_connections, driver_connections, clock>>

\* db.trips.update_one({"id": trip_id}, {"$set": {driver_id, status, assigned_at}})
MatchUpdateTrip(h) ==
    /\ h.pc = "md_update_trip"
    /\ trips' = [trips EXCEPT ![h.trip_id] =
                   [@ EXCEPT !.driver_id = h.driver_id,
                             !.status = "assigned",
                             !.assigned_at = clock + 1]]
    /\ clock' = clock + 1
    /\ Resume(h, [h EXCEPT !.pc = "md_update_driver"])
    /\ Quiet
    /\ UNCHANGED <<websockets, riders, drivers, rider_connections, driver_connections>>

\* mutant of MatchUpdateDriver: the driver's status is left as it is
MatchUpdateDriverSkipped(h) ==
    /\ h.pc = "md_update_driver"
    /\ Resume(h, [h EXCEPT !.pc = "md_send_rider"])
    /\ Quiet
    /\ UNCHANGED <<websockets, riders, drivers, trips, rider_connections, driver_connections, clock>>

\* db.drivers.update_one({"id": best_driver['id']}, {"$set": {"status": "on_trip"}})
MatchUpdateDriver(h) ==
    /\ h.pc = "md_update_driver"
    /\ drivers' = [drivers EXCEPT ![h.driver_id].status = "on_trip"]
    /\ Resume(h, [h EXCEPT !.pc = "md_send_rider"])
    /\ Quiet
    /\ UNCHANGED <<websockets, riders, trips, rider_connections, driver_connections, clock>>

MatchSendRider(h) ==
    /\ h.pc = "md_send_rider"
    /\ LET message == [type |-> "trip_assigned", trip_id |-> h.trip_id,
                       documents |-> {"driver"}]
       IN  IF SendToRiderRaises(h.rider_id, message)
           THEN /\ sent' = <<>>
                /\ response' = Raised(h)
                /\ Finish(h)
           ELSE /\ sent' = send_to_rider(h.rider_id, message)
                /\ response' = NoResponse
                /\ Resume(h, [h EXCEPT !.pc = "md_send_driver"])
    /\ UNCHANGED <<websockets, riders, drivers, trips, rider_connections, driver_connections, clock>>

MatchSendDriver(h) ==
    /\ h.pc = "md_send_driver"
    /\ LET message == [type |-> "trip_assigned", trip_id |-> h.trip_id,
                       documents |-> {"trip"}]
       IN  IF SendToDriverRaises(h.driver_id, message)
           THEN /\ sent' = <<>>
                /\ response' = Raised(h)
                /\ Finish(h)
           ELSE /\ sent' = send_to_driver(h.driver_id, message)
                /\ response' = AfterMatch(h.op, h.trip_id, "assigned")
                /\ Finish(h)
    /\ UNCHANGED <<websockets, riders, drivers, trips, rider_connections, driver_connections, clock>>

\* ------------------------------------------------------------ request_trip
\* mutant of RiderExists: the lookup finds a rider for every id
RiderExistsAlways(rider_id) == TRUE

\* db.riders.find_one({"id": rider_id}) finds a document
RiderExists(rider_id) == rider_id \in DOMAIN riders

\* POST /trips/request up to its second await: the rider lookup (rider records
\* are never removed) and the insert of the new trip
request_trip(rider_id, pickup, dropoff) ==
    /\ Free
    /\ IF RiderExists(rider_id)
       THEN /\ trips' = Append(trips, NewTrip(rider_id, pickup, dropoff, clock + 1))
            /\ clock' = clock + 1
            /\ Spawn(Running("request", "md_find_trip", Len(trips) + 1, Null, Null))
            /\ response' = NoResponse
       ELSE /\ response' = Response("request", Null, "404", "none")
            /\ UNCHANGED <<trips, clock, proc>>
    /\ sent' = <<>>
    /\ UNCHANGED <<websockets, riders, drivers, rider_connections, driver_connections>>

\* -------------------------------------------------------------- start_trip
\* mutant of StartFilter: a started trip can be started again
StartFilterAssignedOrOngoing(trip) == trip.status \in {"assigned", "ongoing"}

\* mutant of StartFilter: a trip can be started before a driver is assigned
StartFilterRequestedOrAssigned(trip) == trip.status \in {"requested", "assigned"}

\* mutant of StartFilter: the update matches on the id alone
StartFilterAlways(trip) == TRUE

\* the filter of start_trip's update_one: {"id": trip_id, "status": "assigned"}
StartFilter(trip) == trip.status = "assigned"

\* PUT /trips/{trip_id}/start up to its first await: the conditional update
start_trip(trip_id) ==
    /\ Free
    /\ IF TripExists(trip_id) /\ StartFilter(trips[trip_id])
       THEN /\ trips' = [trips EXCEPT ![trip_id] =
                          [@ EXCEPT !.status = "ongoing", !.started_at = clock + 1]]
            /\ clock' = clock + 1
            /\ Spawn(Running("start", "st_find", trip_id, Null, Null))
            /\ response' = NoResponse
       ELSE /\ response' = Response("start", trip_id, "404", "none")
            /\ UNCHANGED <<trips, clock, proc>>
    /\ sent' = <<>>
    /\ UNCHANGED <<websockets, riders, drivers, rider_connections, driver_connections>>

\* trip = await db.trips.find_one({"id": trip_id})
StartFind(h) ==
    /\ h.pc = "st_find"
    /\ Resume(h, [h EXCEPT !.pc = "st_send_rider",
                           !.rider_id = trips[h.trip_id].rider_id])
    /\ Quiet
    /\ UNCHANGED <<websockets, riders, drivers, trips, rider_connections, driver_connections, clock>>

StartSendRider(h) ==
    /\ h.pc = "st_send_rider"
    /\ LET message == [type |-> "trip_started", trip_id |-> h.trip_id,
                       documents |-> {}]
       IN  IF SendToRiderRaises(h.rider_id, message)
           THEN /\ sent' = <<>>
                /\ response' = Raised(h)
                /\ Finish(h)
           ELSE /\ sent' = send_to_rider(h.rider_id, message)
                /\ response' = Response("start", h.trip_id, "200", "none")
                /\ Finish(h)
    /\ UNCHANGED <<websockets, riders, drivers, trips, rider_connections, driver_connections, clock>>

\* ----------------------------------------------------------- complete_trip
\* mutant of CompleteFilter: an assigned trip can be completed without a start
CompleteFilterAssignedOrOngoing(trip) == trip.status \in {"assigned", "ongoing"}

\* the filter of complete_trip's update_one: {"id": trip_id, "status": "ongoing"}
CompleteFilter(trip) == trip.status = "ongoing"

\* PUT /trips/{trip_id}/complete up to its first await: trip = find_one(...)
complete_trip(trip_id) ==
    /\ Free
    /\ IF TripExists(trip_id)
       THEN /\ Spawn(Running("complete", "ct_update", trip_id,
                             trips[trip_id].rider_id, trips[trip_id].driver_id))
            /\ response' = NoResponse
       ELSE /\ response' = Response("complete", trip_id, "404", "none")
            /\ UNCHANGED proc
    /\ sent' = <<>>
    /\ UNCHANGED <<websockets, riders, drivers, trips, rider_connections, driver_connections, clock>>

\* distance and fare from the loaded trip (pickup and dropoff are never written
\* after the insert), then the conditional update
CompleteUpdate(h) ==
    /\ h.pc = "ct_update"
    /\ LET distance == haversine_distance(trips[h.trip_id].pickup,
                                          trips[h.trip_id].dropoff)
       IN IF CompleteFilter(trips[h.trip_id])
          THEN /\ trips' = [trips EXCEPT ![h.trip_id] =
                             [@ EXCEPT !.status = "completed",
                                       !.completed_at = clock + 1,
                                       !.distance_km = distance,
                                       !.fare = Fare(distance)]]
               /\ clock' = clock + 1
               /\ Resume(h, [h EXCEPT !.pc = IF h.driver_id # Null
                                             THEN "ct_update_driver"
                                             ELSE "ct_send_rider"])
               /\ response' = NoResponse
          ELSE /\ Finish(h)
               /\ response' = Response("complete", h.trip_id, "404", "none")
               /\ UNCHANGED <<trips, clock>>
    /\ sent' = <<>>
    /\ UNCHANGED <<websockets, riders, drivers, rider_connections, driver_connections>>

\* if trip['driver_id']: update_one({"id": trip['driver_id']}, status available)
CompleteUpdateDriver(h) ==
    /\ h.pc = "ct_update_driver"
    /\ drivers' = [drivers EXCEPT ![h.driver_id].status = "available"]
    /\ Resume(h, [h EXCEPT !.pc = "ct_send_rider"])
    /\ Quiet
    /\ UNCHANGED <<websockets, riders, trips, rider_connections, driver_connections, clock>>

CompleteSendRider(h) ==
    /\ h.pc = "ct_send_rider"
    /\ LET message == [type |-> "trip_completed", trip_id |-> h.trip_id,
                       documents |-> {}]
       IN  IF SendToRiderRaises(h.rider_id, message)
           THEN /\ sent' = <<>>
                /\ response' = Raised(h)
                /\ Finish(h)
           ELSE /\ sent' = send_to_rider(h.rider_id, message)
                /\ response' = NoResponse
                /\ Resume(h, [h EXCEPT !.pc = "ct_send_driver"])
    /\ UNCHANGED <<websockets, riders, drivers, trips, rider_connections, driver_connections, clock>>

CompleteSendDriver(h) ==
    /\ h.pc = "ct_send_driver"
    /\ LET message == [type |-> "trip_completed", trip_id |-> h.trip_id,
                       documents |-> {}]
       IN  IF SendToDriverRaises(h.driver_id, message)
           THEN /\ sent' = <<>>
                /\ response' = Raised(h)
                /\ Finish(h)
           ELSE /\ sent' = send_to_driver(h.driver_id, message)
                /\ response' = Response("complete", h.trip_id, "200", "none")
                /\ Finish(h)
    /\ UNCHANGED <<websockets, riders, drivers, trips, rider_connections, driver_connections, clock>>

\* --------------------------------------------------------- specifications
\* a driver reports its location or sets its status
DriverStep ==
    \/ \E d \in Drivers, pos \in Positions : update_driver_location(d, pos)
    \/ \E d \in Drivers, s \in DriverStatus : update_driver_status(d, s)

\* a websocket opens or closes
\* (/ws/rider/{rider_id}, /ws/driver/{driver_id}; WebSocketDisconnect is raised
\* in the route of a websocket that is open)
ChannelStep ==
    \/ \E r \in Riders : connect_rider(r, RouteSocket)
    \/ \E r \in DOMAIN rider_connections : disconnect_rider(r)
    \/ \E d \in Drivers : connect_driver(d, RouteSocket)
    \/ \E d \in DOMAIN driver_connections : disconnect_driver(d)

\* a request for a trip route arrives
Arrive ==
    \/ \E r \in Riders \cup {UnknownRider}, pickup \in Pickups, dropoff \in Dropoffs :
          /\ RiderExists(r) => Len(trips) < MaxTrips
          /\ request_trip(r, pickup, dropoff)
    \/ \E t \in TripIds \cup {AbsentTrip} : start_trip(t)
    \/ \E t \in TripIds \cup {AbsentTrip} : complete_trip(t)

\* a suspended handler runs its next segment
HandlerStep ==
    \/ \E h \in Handlers : MatchLoad(h)
    \/ \E h \in Handlers : MatchFindDrivers(h)
    \/ \E h \in Handlers : MatchUpdateTrip(h)
    \/ \E h \in Handlers : MatchUpdateDriver(h)
    \/ \E h \in Handlers : MatchSendRider(h)
    \/ \E h \in Handlers : MatchSendDriver(h)
    \/ \E h \in Handlers : StartFind(h)
    \/ \E h \in Handlers : StartSendRider(h)
    \/ \E h \in Handlers : CompleteUpdate(h)
    \/ \E h \in Handlers : CompleteUpdateDriver(h)
    \/ \E h \in Handlers : CompleteSendRider(h)
    \/ \E h \in Handlers : CompleteSendDriver(h)

\* the HTTP and websocket routes of the server
Next ==
    \/ DriverStep
    \/ ChannelStep
    \/ Arrive
    \/ HandlerStep

Spec == Init /\ [][Next]_vars

\* every rider and driver holds a registered websocket: the state the methods
\* of the ConnectionManager are called in on their own
InitMatch ==
    /\ riders = [r \in Riders |-> NewRider(r)]
    /\ drivers = [d \in Drivers |-> NewDriver(d)]
    /\ trips = <<>>
    /\ rider_connections = [r \in Riders |-> RouteSocket]
    /\ driver_connections = [d \in Drivers |-> RouteSocket]
    /\ websockets = <<>>
    /\ sent = <<>>
    /\ response = NoResponse
    /\ clock = 0
    /\ proc = EmptyBag

\* The trip and driver routes with match_driver also called on its own, for any
\* trip id, as the task its docstring describes; no websocket is registered
NextMatch ==
    \/ DriverStep
    \/ Arrive
    \/ HandlerStep
    \/ \E t \in TripIds \cup {AbsentTrip} : MatchInvoke(t)

SpecMatch == Init /\ [][NextMatch]_vars

\* The ConnectionManager on its own: its methods called in any order with any
\* arguments, starting with every id registered on its first websocket.
NextManager ==
    \/ \E r \in Riders, c \in Channels : connect_rider(r, c)
    \/ \E r \in Riders : disconnect_rider(r)
    \/ \E d \in Drivers, c \in Channels : connect_driver(d, c)
    \/ \E d \in Drivers : disconnect_driver(d)
    \/ \E r \in Riders, m \in Messages : SendToRider(r, m)
    \/ \E d \in Drivers, m \in Messages : SendToDriver(d, m)

SpecManager == InitMatch /\ [][NextManager]_vars

\* The registration routes on their own
NextRegister ==
    \/ \E p \in Phones : register_rider(p)
    \/ \E p \in Phones : register_driver(p)
    \/ \E h \in Handlers : RegisterRiderInsert(h)
    \/ \E h \in Handlers : RegisterDriverInsert(h)
    \/ \E h \in Handlers : RegisterDriverIndex(h)

SpecRegister == Init /\ [][NextRegister]_vars

\* One ride at a time (the lifecycle test of src/backend_test.py): exactly one
\* driver is available, within $maxDistance of every pickup; the drivers send
\* no update of their own; a trip request is made only when no other handler
\* is in flight.
RideDrivers ==
    {ds \in [Drivers -> [phone : Drivers, status : DriverStatus,
                         location : Positions \cup {Null}]] :
        /\ \A d \in Drivers : ds[d].phone = d
        /\ \E D \in Drivers :
              /\ ds[D].status = "available"
              /\ ds[D].location # Null
              /\ \A p \in Pickups :
                    haversine_distance(ds[D].location, p) * 1000 <= MaxDistance
              /\ \A d \in Drivers \ {D} : ds[d].status # "available"}

InitRide ==
    /\ riders = [r \in Riders |-> NewRider(r)]
    /\ drivers \in RideDrivers
    /\ trips = <<>>
    /\ rider_connections = <<>>
    /\ driver_connections = <<>>
    /\ websockets = <<>>
    /\ sent = <<>>
    /\ response = NoResponse
    /\ clock = 0
    /\ proc = EmptyBag

NextRide ==
    \/ ChannelStep
    \/ proc = EmptyBag /\ Arrive
    \/ HandlerStep

\* the event loop resumes every coroutine whose await has completed
SpecRide == InitRide /\ [][NextRide]_vars /\ WF_vars(HandlerStep)

\* The websocket routes with the websockets they serve: a client may hold
\* several websockets open under its id, and close them in any order
NextSockets ==
    \/ \E r \in Riders, c \in Channels : websocket_rider(r, c)
    \/ \E r \in Riders, c \in Channels : websocket_rider_disconnect(r, c)
    \/ \E d \in Drivers, c \in Channels : websocket_driver(d, c)
    \/ \E d \in Drivers, c \in Channels : websocket_driver_disconnect(d, c)
    \/ \E r \in Riders, m \in Messages : SendToRider(r, m)
    \/ \E d \in Drivers, m \in Messages : SendToDriver(d, m)

SpecSockets == Init /\ [][NextSockets]_vars

\* A ride on its own whose parties open and close their websocket, and whose
\* connections may fail at any moment
NextBroken ==
    \/ \E r \in Riders : websocket_rider(r, RouteSocket)
    \/ \E r \in Riders : websocket_rider_disconnect(r, RouteSocket)
    \/ \E d \in Drivers : websocket_driver(d, RouteSocket)
    \/ \E d \in Drivers : websocket_driver_disconnect(d, RouteSocket)
    \/ \E k \in DOMAIN websockets : Break(k)
    \/ proc = EmptyBag /\ Arrive
    \/ HandlerStep

SpecBroken == InitRide /\ [][NextBroken]_vars

\* trip requests that contend for the drivers: up to MaxRequests trips, and
\* the handlers of one request interleave with those of the next
NextContend ==
    \/ \E r \in Riders \cup {UnknownRider}, pickup \in Pickups, dropoff \in Dropoffs :
          /\ RiderExists(r) => Len(trips) < MaxRequests
          /\ request_trip(r, pickup, dropoff)
    \/ \E t \in TripIds \cup {MaxRequests + 1} : start_trip(t)
    \/ \E t \in TripIds \cup {MaxRequests + 1} : complete_trip(t)
    \/ HandlerStep

SpecContend == InitRide /\ [][NextContend]_vars

\* the surge computation of estimate_fare, applied to a demand and a supply
\* count: the response carries the inputs and the factor returned
SurgeFactor(demand, supply) ==
    /\ sent' = <<>>
    /\ response' = [op |-> "calculate_surge_factor", demand |-> demand,
                    supply |-> supply,
                    surge_factor |-> calculate_surge_factor(demand, supply)]
    /\ UNCHANGED <<websockets, riders, drivers, trips, rider_connections, driver_connections, clock, proc>>

NextSurge == \E demand \in 0..MaxDemand, supply \in 0..MaxSupply : SurgeFactor(demand, supply)

SpecSurge == Init /\ [][NextSurge]_vars

\* ------------------------------------------------- what a step did, observed
\* a handler with these locals was added to the handlers in flight by the step
Entered(h) == CopiesIn(h, proc') > CopiesIn(h, proc)

\* the step was a start_trip call on trip t whose update matched
StartAccepted(t) == Entered(Running("start", "st_find", t, Null, Null))

\* the step was a start_trip call on trip t answered 404
StartRejected(t) == response' = Response("start", t, "404", "none")

\* the step was the update of a complete_trip call on trip t, and it matched
CompleteAccepted(t) ==
    \E h \in Handlers :
        /\ h.op = "complete" /\ h.pc = "ct_update" /\ h.trip_id = t
        /\ CopiesIn(h, proc') < CopiesIn(h, proc)
        /\ response' = NoResponse

\* the step was a complete_trip call on trip t answered 404
CompleteRejected(t) == response' = Response("complete", t, "404", "none")

\* the step was the guard of a match_driver call on trip t, and the call went on
MatchEntered(t) ==
    \E h \in BagToSet(proc') :
        h.pc = "md_find_drivers" /\ h.trip_id = t /\ Entered(h)

\* the step was the guard of a match_driver call on trip t, and the call returned
MatchSkipped(t) == response'.match = "skipped" /\ response'.trip_id = t

\* driver d is available and located within the radius of the pickup
InRadius(d, pickup) ==
    /\ drivers[d].status = "available"
    /\ drivers[d].location # Null
    /\ haversine_distance(drivers[d].location, pickup) <= RadiusKm

\* a match_driver call (on its own or inside request_trip) is in flight for trip t
Matching(t) == \E h \in Handlers : h.trip_id = t /\ h.op \in {"request", "match"}

\* ------------------------------------------------------------------ claims

\* C1: the write of match_driver that sets driver_id, status assigned and
\* assigned_at is applied only while the stored status is requested, and a
\* driver_id that is set is never overwritten.
C1_AssignOnlyFromRequested ==
    [][\A t \in TripIds :
          /\ (\/ trips'[t].driver_id # trips[t].driver_id
              \/ trips'[t].assigned_at # trips[t].assigned_at)
                => trips[t].status = "requested"
          /\ trips[t].driver_id # Null => trips'[t].driver_id = trips[t].driver_id
      ]_vars

\* C2: a driver is on_trip if and only if exactly one non-terminal trip names
\* it as driver_id.
C2_OnTripIffOneActiveTrip ==
    \A d \in Drivers :
        drivers[d].status = "on_trip"
           <=> Cardinality({t \in TripIds : /\ trips[t].status \in NonTerminal
                                            /\ trips[t].driver_id = d}) = 1

\* C3: a start call takes effect only on a trip stored as assigned, and then
\* sets status ongoing and started_at and nothing else; a start call on an
\* absent trip or a trip in another status is answered 404, changes no trip and
\* no driver and writes no frame; no other step makes a trip ongoing.
C3_StartOnlyFromAssigned ==
    [][\A t \in TripIds \cup {AbsentTrip} :
          /\ StartAccepted(t) =>
                /\ TripExists(t) /\ trips[t].status = "assigned"
                /\ trips' = [trips EXCEPT ![t] =
                               [@ EXCEPT !.status = "ongoing", !.started_at = clock']]
                /\ clock' > clock
                /\ drivers' = drivers
          /\ StartRejected(t) =>
                /\ ~(TripExists(t) /\ trips[t].status = "assigned")
                /\ trips' = trips /\ drivers' = drivers /\ sent' = <<>>
                /\ proc' = proc
          /\ (TripExists(t) /\ trips[t].status # "ongoing" /\ trips'[t].status = "ongoing")
                => StartAccepted(t)
          /\ (response'.op = "start" /\ response'.result = "200") =>
                \E h \in Handlers : h.op = "start" /\ h.trip_id = response'.trip_id
      ]_vars

\* a second start of a trip that is already ongoing was answered 404
C3_Witness ==
    /\ response = Response("start", 1, "404", "none")
    /\ TripExists(1) /\ trips[1].status = "ongoing" /\ trips[1].started_at # Null

\* C4: the update of a complete call takes effect only on a trip stored as
\* ongoing, and then sets status completed, completed_at, distance_km and fare
\* and nothing else; a complete call on an absent trip or a trip in another
\* status is answered 404, changes no trip and no driver and writes no frame;
\* no other step makes a trip completed.
C4_CompleteOnlyFromOngoing ==
    [][\A t \in TripIds \cup {AbsentTrip} :
          /\ CompleteAccepted(t) =>
                /\ trips[t].status = "ongoing"
                /\ trips' = [trips EXCEPT ![t] =
                      [@ EXCEPT !.status = "completed",
                                !.completed_at = clock',
                                !.distance_km =
                                    haversine_distance(trips[t].pickup, trips[t].dropoff),
                                !.fare = base_fare + per_km_rate *
                                    haversine_distance(trips[t].pickup, trips[t].dropoff)]]
                /\ clock' > clock
          /\ CompleteRejected(t) =>
                /\ ~(TripExists(t) /\ trips[t].status = "ongoing")
                /\ trips' = trips /\ drivers' = drivers /\ sent' = <<>>
          /\ (TripExists(t) /\ trips[t].status # "completed"
                            /\ trips'[t].status = "completed")
                => CompleteAccepted(t)
          /\ (response'.op = "complete" /\ response'.result = "200") =>
                /\ TripExists(response'.trip_id)
                /\ trips[response'.trip_id].fare # Null
      ]_vars

\* a complete of a trip that is only assigned was answered 404 at its update
C4_Witness ==
    /\ response = Response("complete", 1, "404", "none")
    /\ TripExists(1) /\ trips[1].status = "assigned" /\ trips[1].fare = Null

\* C5: of the start calls on one trip at most one takes effect: a start takes
\* effect only on a trip no start took effect on before (started_at is unset,
\* and once set it stays); likewise for the complete calls and completed_at.
C5_AtMostOneTransition ==
    [][\A t \in TripIds :
          /\ StartAccepted(t) =>
                trips[t].started_at = Null /\ trips'[t].started_at # Null
          /\ trips[t].started_at # Null => trips'[t].started_at = trips[t].started_at
          /\ CompleteAccepted(t) =>
                trips[t].completed_at = Null /\ trips'[t].completed_at # Null
          /\ trips[t].completed_at # Null
                => trips'[t].completed_at = trips[t].completed_at
      ]_vars

\* two complete calls loaded the same ongoing trip; the update of one took
\* effect and the update of the other is still to come
C5_Witness ==
    \E h1, h2 \in Handlers :
        /\ h1.op = "complete" /\ h2.op = "complete" /\ h1.trip_id = h2.trip_id
        /\ h1.pc = "ct_update" /\ h2.pc = "ct_update_driver"
        /\ trips[h1.trip_id].status = "completed"

\* C6: once a trip is stored as completed or cancelled, no step changes any of
\* its fields.
C6_TerminalImmutable ==
    [][\A t \in TripIds : trips[t].status \in Terminal => trips'[t] = trips[t]]_vars

\* C7: distance_km and fare are null while the status is requested, assigned
\* or ongoing, are set by the step that completes the trip, and never change
\* afterwards.
C7_FareOnlyAtCompletion ==
    [][\A t \in TripIds :
          /\ trips'[t].status \in NonTerminal
                => trips'[t].distance_km = Null /\ trips'[t].fare = Null
          /\ trips'[t].status = "completed"
                => trips'[t].distance_km # Null /\ trips'[t].fare # Null
          /\ trips[t].fare # Null
                => /\ trips'[t].fare = trips[t].fare
                   /\ trips'[t].distance_km = trips[t].distance_km
      ]_vars

\* C8: a match_driver call goes past its guard only for a trip stored as
\* requested; on an absent trip or a trip in another status it returns at the
\* guard: no trip and no driver is written, no frame is sent, and the call
\* leaves no handler behind that could write later.
C8_MatchNoOpUnlessRequested ==
    [][\A t \in TripIds \cup {AbsentTrip} :
          /\ MatchEntered(t) => TripExists(t) /\ trips[t].status = "requested"
          /\ MatchSkipped(t) =>
                /\ ~(TripExists(t) /\ trips[t].status = "requested")
                /\ trips' = trips /\ drivers' = drivers /\ sent' = <<>>
                /\ \A h \in BagToSet(proc') : CopiesIn(h, proc') <= CopiesIn(h, proc)
      ]_vars

\* match_driver was called on a trip that is already assigned, and returned
C8_Witness ==
    /\ response = Response("match", 1, "none", "skipped")
    /\ TripExists(1) /\ trips[1].status = "assigned" /\ trips[1].driver_id # Null

\* C9: the driver a match_driver call picks is, when the proximity query runs,
\* available and located within the radius of the pickup, and no available
\* driver within the radius is strictly nearer; and the driver_id the call
\* then writes is the driver it picked.
C9_NearestAvailableInRadius ==
    [][/\ \A h \in BagToSet(proc') :
             (h.pc = "md_update_trip" /\ Entered(h)) =>
                LET pickup == trips[h.trip_id].pickup
                    dist(d) == haversine_distance(drivers[d].location, pickup)
                IN  /\ h.driver_id \in Drivers
                    /\ InRadius(h.driver_id, pickup)
                    /\ \A d \in Drivers :
                          InRadius(d, pickup) => dist(h.driver_id) <= dist(d)
       /\ \A t \in TripIds :
             trips'[t].driver_id # trips[t].driver_id =>
                \E h \in Handlers :
                    /\ h.pc = "md_update_trip" /\ h.trip_id = t
                    /\ h.driver_id = trips'[t].driver_id
                    /\ trips'[t].status = "assigned"
      ]_vars

\* a match picked a driver while another available driver within the radius
\* was strictly farther from the pickup
C9_Witness ==
    \E h \in Handlers : \E d \in Drivers :
        /\ h.pc = "md_update_trip"
        /\ InRadius(h.driver_id, trips[h.trip_id].pickup)
        /\ InRadius(d, trips[h.trip_id].pickup)
        /\ haversine_distance(drivers[d].location, trips[h.trip_id].pickup)
             > haversine_distance(drivers[h.driver_id].location, trips[h.trip_id].pickup)

\* C10: a match that finds no available driver within the radius ends without
\* an error, writes no trip and no driver and sends no frame; and a requested
\* trip with no match in flight stays requested, with no match in flight, after
\* every step of the routes.
C10_NoDriverLeavesRequested ==
    [][/\ response'.match = "no_driver" =>
             /\ response'.result = "200"
             /\ TripExists(response'.trip_id)
             /\ \A d \in Drivers : ~InRadius(d, trips[response'.trip_id].pickup)
             /\ trips' = trips /\ drivers' = drivers /\ sent' = <<>>
             /\ trips[response'.trip_id].status = "requested"
       /\ \A t \in TripIds :
             (trips[t].status = "requested" /\ ~Matching(t)) =>
                /\ trips'[t] = trips[t]
                /\ \A h \in BagToSet(proc') :
                      ~(h.trip_id = t /\ h.op \in {"request", "match"})
      ]_vars

\* the match of a request found nobody, the request is over, and now a driver
\* is available within the radius of the still requested trip
C10_Witness ==
    /\ TripExists(1) /\ trips[1].status = "requested"
    /\ proc = EmptyBag
    /\ \E d \in Drivers : InRadius(d, trips[1].pickup)

\* C11: in a ride on its own, a trip request made while driver D is available
\* within the radius of the pickup leads to the trip stored as assigned with
\* driver_id D and D on_trip; a start of the assigned trip and a complete of
\* the ongoing trip are never answered 404, and each leads to its 200 response
\* with the trip stored as ongoing, respectively completed.
C11_RideRunsThrough ==
    /\ \A t \in 1..MaxTrips : \A D \in Drivers :
          (/\ TripExists(t) /\ trips[t].status = "requested"
           /\ \E h \in Handlers : h.trip_id = t /\ h.pc = "md_find_trip"
           /\ InRadius(D, trips[t].pickup))
             ~> (/\ TripExists(t) /\ trips[t].status = "assigned"
                 /\ trips[t].driver_id = D
                 /\ drivers[D].status = "on_trip")
    /\ [][\A t \in TripIds :
            /\ trips[t].status = "assigned" => ~StartRejected(t)
            /\ trips[t].status = "ongoing" => ~CompleteRejected(t)]_vars
    /\ \A t \in 1..MaxTrips :
          (\E h \in Handlers : h.op = "start" /\ h.trip_id = t)
             ~> (/\ response = Response("start", t, "200", "none")
                 /\ trips[t].status = "ongoing")
    /\ \A t \in 1..MaxTrips :
          (/\ TripExists(t) /\ trips[t].status = "ongoing"
           /\ \E h \in Handlers : h.op = "complete" /\ h.trip_id = t)
             ~> (/\ response = Response("complete", t, "200", "none")
                 /\ trips[t].status = "completed")

\* the ride is over: the complete call returned 200 and the driver the trip
\* was assigned to is available again
C11_Witness ==
    /\ response = Response("complete", 1, "200", "none")
    /\ TripExists(1) /\ trips[1].status = "completed"
    /\ trips[1].driver_id \in Drivers
    /\ drivers[trips[1].driver_id].status = "available"

\* C12: a complete call whose update took effect on a trip assigned to driver D
\* goes on to set D's status back to available.
C12_CompleteReleasesDriver ==
    [][\A t \in TripIds :
          (CompleteAccepted(t) /\ trips[t].driver_id # Null) =>
             \E h \in BagToSet(proc') :
                /\ Entered(h)
                /\ h.op = "complete" /\ h.trip_id = t
                /\ h.pc = "ct_update_driver"
                /\ h.driver_id = trips[t].driver_id
      ]_vars

\* the handler with these locals ran a segment in the step
Left(h) == CopiesIn(h, proc') < CopiesIn(h, proc)

\* the trip_assigned message of trip t
Assigned(t) == [type |-> "trip_assigned", trip_id |-> t]

\* C13: a match_driver call that assigned driver D to a trip of rider R sends
\* trip_assigned with the trip id to the websocket registered for R at that
\* moment, if there is one, and then likewise to the one registered for D;
\* and a trip_assigned frame is written by no other step, so none is written
\* for a call that returned at its guard or found no driver.
C13_AssignedNotified ==
    [][/\ \A h \in Handlers :
             (h.pc = "md_send_rider" /\ Left(h)) =>
                /\ trips[h.trip_id].driver_id = h.driver_id
                /\ trips[h.trip_id].rider_id = h.rider_id
                /\ sent' = IF h.rider_id \in DOMAIN rider_connections
                           THEN <<Frame("rider", h.rider_id,
                                        rider_connections[h.rider_id],
                                        Assigned(h.trip_id))>>
                           ELSE <<>>
                /\ Entered([h EXCEPT !.pc = "md_send_driver"])
       /\ \A h \in Handlers :
             (h.pc = "md_send_driver" /\ Left(h)) =>
                /\ trips[h.trip_id].driver_id = h.driver_id
                /\ sent' = IF h.driver_id \in DOMAIN driver_connections
                           THEN <<Frame("driver", h.driver_id,
                                        driver_connections[h.driver_id],
                                        Assigned(h.trip_id))>>
                           ELSE <<>>
       /\ \A i \in DOMAIN sent' :
             sent'[i].type = "trip_assigned" =>
                \E h \in Handlers :
                    /\ Left(h) /\ h.trip_id = sent'[i].trip_id
                    /\ h.pc = IF sent'[i].role = "rider" THEN "md_send_rider"
                                                        ELSE "md_send_driver"
       /\ response'.match \in {"skipped", "no_driver"} => sent' = <<>>
      ]_vars

\* C14: a request of a known rider stores the new trip as requested, and the
\* call returns 200 with the trip it created however its match_driver call
\* ended: a driver assigned, no driver found, or returned at the guard.
C14_ResponseIndependentOfMatch ==
    [][/\ Len(trips') > Len(trips) =>
             /\ trips' = Append(trips, trips'[Len(trips')])
             /\ trips'[Len(trips')].status = "requested"
             /\ trips'[Len(trips')].driver_id = Null
             /\ RiderExists(trips'[Len(trips')].rider_id)
             /\ Entered(Running("request", "md_find_trip", Len(trips'), Null, Null))
       /\ \A h \in Handlers :
             (/\ h.op = "request" /\ Left(h)
              /\ BagCardinality(proc') < BagCardinality(proc)) =>
                /\ TripExists(h.trip_id)
                /\ response'.match \in {"assigned", "no_driver", "skipped"}
                /\ response' = Response("request", h.trip_id, "200", response'.match)
       /\ response'.op = "request" =>
             \/ response'.result = "200"
             \/ response' = Response("request", Null, "404", "none")
      ]_vars

\* C15: a trip request naming a rider id that no rider record carries is
\* answered 404; it stores no trip, starts no match_driver call, writes no
\* driver and sends no frame; and every trip that is stored names a rider
\* that exists.
C15_UnknownRiderRejected ==
    [][/\ (response'.op = "request" /\ response'.result = "404") =>
             /\ trips' = trips /\ drivers' = drivers /\ riders' = riders
             /\ proc' = proc /\ sent' = <<>>
       /\ \A t \in 1..Len(trips') : trips'[t].rider_id \in DOMAIN riders
       /\ \A h \in BagToSet(proc') :
             (Entered(h) /\ h.pc = "md_find_trip") =>
                /\ h.trip_id \in 1..Len(trips')
                /\ trips'[h.trip_id].rider_id \in DOMAIN riders
      ]_vars

\* a request of an unknown rider was answered 404 while a driver was
\* available at the pickup, and no trip is stored
C15_Witness ==
    /\ response = Response("request", Null, "404", "none")
    /\ trips = <<>> /\ proc = EmptyBag
    /\ \E d \in Drivers : \E p \in Pickups : InRadius(d, p)

\* the mapping `after` is `before` with id mapped to websocket
ReplacedIn(before, after, id, websocket) ==
    /\ DOMAIN after = DOMAIN before \cup {id}
    /\ after[id] = websocket
    /\ \A x \in DOMAIN before \ {id} : after[x] = before[x]

\* the mapping `after` is `before` without an entry for id
RemovedIn(before, after, id) ==
    /\ DOMAIN after = DOMAIN before \ {id}
    /\ \A x \in DOMAIN after : after[x] = before[x]
    /\ id \notin DOMAIN before => after = before

\* C16: connect_rider(id, websocket) leaves id mapped to exactly the websocket
\* given, whatever it was mapped to before, and leaves every other rider
\* entry and the driver mapping as they were; likewise connect_driver.  (A
\* mapping holds one websocket per id by construction.)
C16_RegisterReplaces ==
    [][/\ \A r \in Riders, c \in Channels :
             connect_rider(r, c) =>
                /\ ReplacedIn(rider_connections, rider_connections', r, c)
                /\ driver_connections' = driver_connections
       /\ \A d \in Drivers, c \in Channels :
             connect_driver(d, c) =>
                /\ ReplacedIn(driver_connections, driver_connections', d, c)
                /\ rider_connections' = rider_connections
      ]_vars

\* a rider is mapped to another websocket than the one it started with, and
\* every driver is still mapped to the websocket it started with
C16_Witness ==
    /\ \E r \in DOMAIN rider_connections : rider_connections[r] # RouteSocket
    /\ driver_connections = [d \in Drivers |-> RouteSocket]

\* C17: disconnect_rider(id) removes the entry of id if there is one and
\* changes nothing otherwise; every other rider entry and the driver mapping
\* are as they were; likewise disconnect_driver.
C17_UnregisterRemoves ==
    [][/\ \A r \in Riders :
             disconnect_rider(r) =>
                /\ RemovedIn(rider_connections, rider_connections', r)
                /\ driver_connections' = driver_connections
       /\ \A d \in Drivers :
             disconnect_driver(d) =>
                /\ RemovedIn(driver_connections, driver_connections', d)
                /\ rider_connections' = rider_connections
      ]_vars

\* the entry of one driver was removed; the other drivers and every rider are
\* mapped as at the start
C17_Witness ==
    /\ \E d \in Drivers :
          driver_connections = [x \in Drivers \ {d} |-> RouteSocket]
    /\ rider_connections = [r \in Riders |-> RouteSocket]

\* C18: a step writes at most one frame, and only to the websocket registered
\* for the frame's (role, id) when the step is taken; so a send for an id
\* with no websocket registered writes nothing (and returns without error),
\* and a websocket registered later receives nothing, since a step that
\* changes a mapping writes no frame and a frame is written only by the step
\* of the send call itself; no send changes a mapping.
C18_NotifyDropsUnregistered ==
    [][/\ Len(sent') <= 1
       /\ \A i \in DOMAIN sent' :
             LET f == sent'[i]
                 connections == IF f.role = "rider" THEN rider_connections
                                                    ELSE driver_connections
             IN  /\ f.id \in DOMAIN connections
                 /\ f.channel = connections[f.id]
                 /\ response' = Response(IF f.role = "rider" THEN "send_to_rider"
                                                              ELSE "send_to_driver",
                                         f.trip_id, "none", "none")
       /\ \A r \in Riders, m \in Messages :
             (SendToRider(r, m) /\ r \notin DOMAIN rider_connections) => sent' = <<>>
       /\ \A d \in Drivers, m \in Messages :
             (SendToDriver(d, m) /\ d \notin DOMAIN driver_connections) => sent' = <<>>
       /\ response'.op \in {"send_to_rider", "send_to_driver"} =>
             /\ rider_connections' = rider_connections
             /\ driver_connections' = driver_connections
             /\ response'.result = "none"
       /\ (\/ rider_connections' # rider_connections
           \/ driver_connections' # driver_connections) => sent' = <<>>
      ]_vars

\* send_to_rider was called while no rider had a websocket registered, and
\* wrote nothing
C18_Witness ==
    /\ response.op = "send_to_rider"
    /\ sent = <<>>
    /\ rider_connections = <<>>
    /\ driver_connections # <<>>

\* C19: no two rider records carry the same phone, and no two driver records
\* carry the same phone.
C19_PhonesUnique ==
    /\ \A i, j \in DOMAIN riders : i # j => riders[i].phone # riders[j].phone
    /\ \A i, j \in DOMAIN drivers : i # j => drivers[i].phone # drivers[j].phone

\* the trip t is stored with one of the statuses S
Reached(t, S) == trips[t].status \in S

SurgeIs(x) == Leq(response.surge_factor, x) /\ Leq(x, response.surge_factor)

\* C21: the surge factor is 2.5 when supply is 0 and otherwise
\* min(1.0 + 0.6 * max(0, demand/supply - 1), 2.5), here in tenths over
\* 10 * supply; it lies in [1.0, 2.5], does not decrease when demand grows
\* over a fixed positive supply, does not increase when a positive supply grows
\* under a fixed demand, surge(0, 0) = 2.5 and surge(5, 10) = 1.0
C21_SurgeFactor ==
    response.op = "calculate_surge_factor" =>
        LET demand == response.demand
            supply == response.supply
            factor == response.surge_factor
            over   == IF demand > supply THEN demand - supply ELSE 0
            tenths == (10 * supply) + (6 * over)
        IN  /\ factor[2] > 0
            /\ supply = 0 => 10 * factor[1] = 25 * factor[2]
            /\ supply > 0 =>
                   (10 * supply) * factor[1] =
                       factor[2] * (IF tenths < 25 * supply THEN tenths ELSE 25 * supply)
            /\ factor[2] <= factor[1]
            /\ 10 * factor[1] <= 25 * factor[2]
            /\ \A more \in demand..MaxDemand :
                   supply > 0 => Leq(factor, calculate_surge_factor(more, supply))
            /\ \A more \in supply..MaxSupply :
                   supply > 0 => Leq(calculate_surge_factor(demand, more), factor)
            /\ (demand = 0 /\ supply = 0) => SurgeIs(<<5, 2>>)
            /\ (demand = 5 /\ supply = 10) => SurgeIs(<<1, 1>>)

\* a factor strictly between 1.0 and 2.5: demand exceeds a positive supply and
\* the cap is not reached
C21_Witness ==
    /\ response.op = "calculate_surge_factor"
    /\ response.supply > 0
    /\ response.demand > response.supply
    /\ ~Leq(response.surge_factor, <<1, 1>>)
    /\ ~Leq(<<25, 10>>, response.surge_factor)

\* C22: whatever the interleaving of concurrent trip requests, no driver is
\* the driver_id of two non-terminal trips at the same time
C22_NoDriverOnTwoActiveTrips ==
    \A d \in Drivers :
        Cardinality({t \in TripIds : /\ trips[t].status \in NonTerminal
                                     /\ trips[t].driver_id = d}) <= 1

\* the steps of the trip lifecycle
Forward ==
    {<<"requested", "assigned">>, <<"assigned", "ongoing">>, <<"ongoing", "completed">>}

\* C23: a stored trip status only moves forward along requested, assigned,
\* ongoing, completed, one status at a time: no step, of a match interleaved
\* with start and complete on the same trip included, stores an earlier status
\* or skips one
C23_StatusOnlyMovesForward ==
    [][\A t \in TripIds :
          trips'[t].status # trips[t].status =>
              <<trips[t].status, trips'[t].status>> \in Forward]_vars

\* the route of websocket c of rider r, respectively driver d, ended in the step
RiderClosed(r, c) ==
    /\ <<"rider", r, c>> \in DOMAIN websockets
    /\ <<"rider", r, c>> \notin DOMAIN websockets'

DriverClosed(d, c) ==
    /\ <<"driver", d, c>> \in DOMAIN websockets
    /\ <<"driver", d, c>> \notin DOMAIN websockets'

\* C24: when a websocket closes that was replaced in the mapping by a newer
\* one of the same id, and the newer one is still open, the entry of the id is
\* left as it is: the newer websocket stays registered
C24_StaleCloseKeepsNewest ==
    [][/\ \A r \in DOMAIN rider_connections : \A c \in Channels :
             (/\ RiderClosed(r, c)
              /\ rider_connections[r] # c
              /\ <<"rider", r, rider_connections[r]>> \in DOMAIN websockets) =>
                 /\ r \in DOMAIN rider_connections'
                 /\ rider_connections'[r] = rider_connections[r]
       /\ \A d \in DOMAIN driver_connections : \A c \in Channels :
             (/\ DriverClosed(d, c)
              /\ driver_connections[d] # c
              /\ <<"driver", d, driver_connections[d]>> \in DOMAIN websockets) =>
                 /\ d \in DOMAIN driver_connections'
                 /\ driver_connections'[d] = driver_connections[d]
      ]_vars

\* the send of the segment handler h is at goes to a registered websocket whose
\* connection has failed
SendsToBroken(h) ==
    \/ /\ h.pc \in {"md_send_rider", "st_send_rider", "ct_send_rider"}
       /\ h.rider_id \in DOMAIN rider_connections
       /\ Broken("rider", h.rider_id, rider_connections[h.rider_id])
    \/ /\ h.pc \in {"md_send_driver", "ct_send_driver"}
       /\ h.driver_id \in DOMAIN driver_connections
       /\ Broken("driver", h.driver_id, driver_connections[h.driver_id])

\* C25: a send to a registered websocket whose connection has failed does not
\* end the handler in an error: after a failed send to the rider, match_driver
\* and complete_trip go on to their send to the driver, and the last send of a
\* request, a start or a complete is followed by the 200 response
C25_FailedSendIsSwallowed ==
    [][\A h \in Handlers :
          (Left(h) /\ SendsToBroken(h)) =>
             /\ response'.result \notin {"500", "raised"}
             /\ h.pc = "md_send_rider" => Entered([h EXCEPT !.pc = "md_send_driver"])
             /\ h.pc = "ct_send_rider" => Entered([h EXCEPT !.pc = "ct_send_driver"])
             /\ h.pc = "md_send_driver" =>
                    response' = AfterMatch(h.op, h.trip_id, "assigned")
             /\ h.pc = "st_send_rider" =>
                    response' = Response("start", h.trip_id, "200", "none")
             /\ h.pc = "ct_send_driver" =>
                    response' = Response("complete", h.trip_id, "200", "none")
      ]_vars

\* C26: no trip is ever stored as cancelled, whatever the request, match, start
\* and complete calls made: every stored status is requested, assigned, ongoing
\* or completed, and completed is the only terminal status a trip reaches
C26_CancelledUnreachable ==
    \A t \in TripIds :
        /\ trips[t].status # "cancelled"
        /\ trips[t].status \in TripStatus
        /\ trips[t].status \in Terminal => trips[t].status = "completed"

\* a trip has reached a terminal status and no handler is left in flight
C26_Witness ==
    /\ proc = EmptyBag
    /\ \E t \in TripIds : trips[t].status \in Terminal

====
